---- MODULE Spec2Model ----
(***************************************************************************)
(* A model of the saltant SDK's model managers (saltant/models): the       *)
(* generic ModelManager, the task-type managers and the task-instance      *)
(* manager.  Every manager method is an operator computing what the Python *)
(* code computes: the exception it raises or the value it returns, and the *)
(* HTTP requests it issues on the client session before that.  The server  *)
(* (its status code and JSON body) is an input of each call.               *)
(***************************************************************************)
EXTENDS Integers, Sequences, FiniteSets, TLC

VARIABLES
    session,    \* every request issued on the client session so far
    issued,     \* the requests the last call issued
    call,       \* the last call: its operation and arguments
    result      \* how the last call ended: returned value or raised error

vars == <<session, issued, call, result>>

(***************************************************************************)
(* Bounds of the model.                                                    *)
(***************************************************************************)
MaxRequests == 3

(***************************************************************************)
(* Python values.  A value whose type varies at run time is a record       *)
(* tagged by its type: None, a str, an int, a list, a dict (its items in   *)
(* insertion order), a datetime.                                           *)
(***************************************************************************)
None == [none |-> TRUE]

PyStr(s) == [str |-> s]

PyInt(i) == [int |-> i]

\* An integer too wide for the checker's integers, by its decimal digits.
PyBigInt(digits) == [bigint |-> digits]

PyList(xs) == [list |-> xs]

PyDict(items) == [dict |-> items]

\* Python's truth value of an optional str, list or dict.
Truthy(v) ==
    /\ v # None
    /\ v # PyStr("")
    /\ v # PyList(<<>>)
    /\ v # PyDict(<<>>)

(***************************************************************************)
(* How a call ends.                                                        *)
(***************************************************************************)
Return(v) == [exc |-> "None", msg |-> "", value |-> v]

Raise(e, m) == [exc |-> e, msg |-> m, value |-> None]

\* A call's outcome together with the requests it issued before ending.
Done(out, reqs) == [out |-> out, reqs |-> reqs]

Get(url) == [method |-> "GET", url |-> url, data |-> None]

Post(url, data) == [method |-> "POST", url |-> url, data |-> data]

\* Python binds keyword arguments to parameters: a keyword that names no
\* parameter, or a required parameter left without a value, is a TypeError.
Binds(keywords, params, required) ==
    /\ keywords \subseteq params
    /\ required \subseteq keywords

\* Python resolves a bare name in the function's locals, then the module's
\* globals (no name used below is a builtin); an unbound one is a NameError.
NameBound(name, locals, globals) == name \in (locals \cup globals)

(***************************************************************************)
(* str(int) and substring search.                                          *)
(***************************************************************************)
DigitChar(d) == SubSeq("0123456789", d + 1, d + 1)

RECURSIVE str(_)
str(n) ==
    IF n < 10 THEN DigitChar(n)
    ELSE str(n \div 10) \o DigitChar(n % 10)

Contains(s, sub) ==
    \E i \in 1..(Len(s) - Len(sub) + 1) : SubSeq(s, i, i + Len(sub) - 1) = sub

(***************************************************************************)
(* saltant.constants                                                       *)
(***************************************************************************)
HTTP_200_OK == 200

HTTP_201_CREATED == 201

(***************************************************************************)
(* resource.py: ModelManager                                               *)
(***************************************************************************)
BadHttpRequestMessage(request_url, status_code) ==
    "Request to " \o request_url \o " failed with status " \o str(status_code)

\* A mutant: the failure is reported without the URL that was requested.
validate_request_success_NoUrl(request_url, status_code, expected_status_code) ==
    IF status_code = expected_status_code
    THEN Return(None)
    ELSE Raise("BadHttpRequestError",
               "Request failed with status " \o str(status_code))

validate_request_success(request_url, status_code, expected_status_code) ==
    IF status_code = expected_status_code
    THEN Return(None)
    ELSE Raise("BadHttpRequestError",
               BadHttpRequestMessage(request_url, status_code))

validate_request_success_params ==
    {"request_url", "status_code", "expected_status_code"}

\* A call of validate_request_success with the given keyword arguments.
Call_validate_request_success(keywords, request_url, status_code, expected_status_code) ==
    IF ~Binds(keywords, validate_request_success_params,
              validate_request_success_params)
    THEN Raise("TypeError", "validate_request_success() got an unexpected keyword argument")
    ELSE validate_request_success(request_url, status_code,
                                  expected_status_code)

\* ModelManager.list(self), .get(self), .create(self): no parameter but self.
ModelManager_list(keywords) ==
    IF ~Binds(keywords, {}, {})
    THEN Raise("TypeError", "list() got an unexpected keyword argument")
    ELSE Raise("NotImplementedError", "")

ModelManager_get(keywords) ==
    IF ~Binds(keywords, {}, {})
    THEN Raise("TypeError", "get() got an unexpected keyword argument")
    ELSE Raise("NotImplementedError", "")

ModelManager_create(keywords) ==
    IF ~Binds(keywords, {}, {})
    THEN Raise("TypeError", "create() got an unexpected keyword argument")
    ELSE Raise("NotImplementedError", "")

\* The methods ModelManager defines, for super() lookups from a subclass.
ModelManager_methods ==
    {"__init__", "list", "get", "create", "validate_request_success"}

(***************************************************************************)
(* The client: its base API URL.  Manager objects: the class attributes a  *)
(* method reads through self.                                              *)
(***************************************************************************)
base_api_url == "https://saltant/api/"

\* str.format on a URL template: the template is its literal pieces with
\* each replacement field "{key}" a piece of its own.
RECURSIVE Format(_, _, _)
Format(template, key, value) ==
    IF template = <<>> THEN ""
    ELSE (IF Head(template) = "{" \o key \o "}" THEN value ELSE Head(template))
         \o Format(Tail(template), key, value)

BaseTaskTypeManager ==
    [cls |-> "BaseTaskTypeManager",
     list_url |-> "NotImplemented",
     detail_url |-> <<"NotImplemented">>,
     model |-> "BaseTaskType"]

ContainerTaskTypeManager ==
    [cls |-> "ContainerTaskTypeManager",
     list_url |-> "containertasktypes/",
     detail_url |-> <<"containertasktypes/", "{id}", "/">>,
     model |-> "ContainerTaskType"]

BaseTaskInstanceManager ==
    [cls |-> "BaseTaskInstanceManager",
     list_url |-> "NotImplemented",
     detail_url |-> <<"NotImplemented">>,
     model |-> "BaseTaskInstance"]

TaskTypeManagers == {BaseTaskTypeManager, ContainerTaskTypeManager}

\* A keyword argument's value, or the parameter's default when omitted.
Arg(kw, key, default) == IF key \in DOMAIN kw THEN kw[key] ELSE default

(***************************************************************************)
(* json.dumps of None, of a list of strings and of a dict from strings to  *)
(* strings, with Python's default separators.                              *)
(***************************************************************************)
Quoted(s) == "\"" \o s \o "\""

RECURSIVE JoinList(_)
JoinList(xs) ==
    IF xs = <<>> THEN ""
    ELSE IF Len(xs) = 1 THEN Quoted(xs[1])
    ELSE Quoted(xs[1]) \o ", " \o JoinList(Tail(xs))

RECURSIVE JoinItems(_)
JoinItems(items) ==
    IF items = <<>> THEN ""
    ELSE IF Len(items) = 1 THEN Quoted(items[1][1]) \o ": " \o Quoted(items[1][2])
    ELSE Quoted(items[1][1]) \o ": " \o Quoted(items[1][2]) \o ", "
         \o JoinItems(Tail(items))

json_dumps(v) ==
    IF v = None THEN "null"
    ELSE IF "list" \in DOMAIN v THEN "[" \o JoinList(v.list) \o "]"
    ELSE "{" \o JoinItems(v.dict) \o "}"

(***************************************************************************)
(* dateutil.parser.parse on the timestamps the server sends:               *)
(* "YYYY-MM-DDTHH:MM:SSZ".  Anything else is a ValueError.                 *)
(***************************************************************************)
IsDigit(c) == \E d \in 0..9 : DigitChar(d) = c

DigitValue(c) == CHOOSE d \in 0..9 : DigitChar(d) = c

RECURSIVE StrToInt(_)
StrToInt(s) ==
    IF Len(s) = 1 THEN DigitValue(s)
    ELSE 10 * StrToInt(SubSeq(s, 1, Len(s) - 1))
         + DigitValue(SubSeq(s, Len(s), Len(s)))

IsIsoTimestamp(s) ==
    /\ Len(s) = 20
    /\ \A i \in {1, 2, 3, 4, 6, 7, 9, 10, 12, 13, 15, 16, 18, 19} :
           IsDigit(SubSeq(s, i, i))
    /\ SubSeq(s, 5, 5) = "-" /\ SubSeq(s, 8, 8) = "-"
    /\ SubSeq(s, 11, 11) = "T"
    /\ SubSeq(s, 14, 14) = ":" /\ SubSeq(s, 17, 17) = ":"
    /\ SubSeq(s, 20, 20) = "Z"
    /\ StrToInt(SubSeq(s, 6, 7)) \in 1..12
    /\ StrToInt(SubSeq(s, 9, 10)) \in 1..31
    /\ StrToInt(SubSeq(s, 12, 13)) \in 0..23
    /\ StrToInt(SubSeq(s, 15, 16)) \in 0..59
    /\ StrToInt(SubSeq(s, 18, 19)) \in 0..59

dateutil_parser_parse(v) ==
    IF "str" \notin DOMAIN v
    THEN Raise("TypeError", "Parser must be a string or character stream")
    ELSE IF ~IsIsoTimestamp(v.str)
    THEN Raise("ValueError", "Unknown string format")
    ELSE Return([datetime |->
                    [year |-> StrToInt(SubSeq(v.str, 1, 4)),
                     month |-> StrToInt(SubSeq(v.str, 6, 7)),
                     day |-> StrToInt(SubSeq(v.str, 9, 10)),
                     hour |-> StrToInt(SubSeq(v.str, 12, 13)),
                     minute |-> StrToInt(SubSeq(v.str, 15, 16)),
                     second |-> StrToInt(SubSeq(v.str, 18, 19)),
                     tzinfo |-> "UTC"]])

\* Whether a value is a structured date-time.
IsDatetime(v) == "datetime" \in DOMAIN v

\* A model instance: its class and the attributes its constructor set.
Instance(cls, attrs) == [cls |-> cls, attrs |-> attrs]

(***************************************************************************)
(* base_task_type.py: BaseTaskType                                         *)
(***************************************************************************)
BaseTaskType_params ==
    {"id", "name", "description", "user", "datetime_created",
     "command_to_run", "environment_variables", "required_arguments",
     "required_arguments_default_values"}

\* BaseTaskType.__init__ called with the keyword arguments kw: every
\* parameter is required and each becomes an attribute.
BaseTaskType_init(kw) ==
    IF ~Binds(DOMAIN kw, BaseTaskType_params, BaseTaskType_params)
    THEN Raise("TypeError", "__init__() got an unexpected keyword argument")
    ELSE Return(Instance("BaseTaskType", kw))

(***************************************************************************)
(* container_task_type.py: ContainerTaskType                               *)
(***************************************************************************)
ContainerTaskType_own_params ==
    {"logs_path", "results_path", "container_image", "container_type"}

ContainerTaskType_params ==
    BaseTaskType_params \cup ContainerTaskType_own_params \cup {"manager"}

\* ContainerTaskType.__init__: it hands the base fields and manager= to
\* BaseTaskType.__init__, then sets the container attributes.
ContainerTaskType_init(kw) ==
    IF ~Binds(DOMAIN kw, ContainerTaskType_params, ContainerTaskType_params)
    THEN Raise("TypeError", "__init__() got an unexpected keyword argument")
    ELSE LET base == BaseTaskType_init(
                        [k \in BaseTaskType_params \cup {"manager"} |-> kw[k]])
         IN  IF base.exc # "None" THEN base
             ELSE Return(Instance("ContainerTaskType",
                     [k \in BaseTaskType_params \cup ContainerTaskType_own_params
                         |-> kw[k]]))

(***************************************************************************)
(* base_task_instance.py: BaseTaskInstance                                 *)
(***************************************************************************)
BaseTaskInstance_required ==
    {"uuid", "state", "user", "task_queue", "task_type", "datetime_created",
     "datetime_finished", "arguments"}

BaseTaskInstance_params == BaseTaskInstance_required \cup {"name"}

\* BaseTaskInstance.__init__: name defaults to the empty string.
BaseTaskInstance_init(kw) ==
    IF ~Binds(DOMAIN kw, BaseTaskInstance_params, BaseTaskInstance_required)
    THEN Raise("TypeError", "__init__() got an unexpected keyword argument")
    ELSE Return(Instance("BaseTaskInstance",
            [k \in BaseTaskInstance_params |-> Arg(kw, k, "")]))

\* cls.model(**response_data): the constructor of the manager's model class.
Construct(model, kw) ==
    CASE model = "BaseTaskType" -> BaseTaskType_init(kw)
      [] model = "ContainerTaskType" -> ContainerTaskType_init(kw)
      [] model = "BaseTaskInstance" -> BaseTaskInstance_init(kw)

(***************************************************************************)
(* base_task_type.py: BaseTaskTypeManager                                  *)
(***************************************************************************)
\* A mutant: the arguments are refused only when both are missing.
BaseTaskTypeManager_get_OrCheck(self, id, name) ==
    IF (id = None) /\ (name = None)
    THEN Done(Raise("ValueError",
                    "Either id or name must be set (but not both!)"), <<>>)
    ELSE IF id # None
    THEN Done(ModelManager_get({"id"}), <<>>)
    ELSE Done(ModelManager_list({"filters"}), <<>>)

\* get(self, id=None, name=None).  Neither BaseTaskTypeManager nor
\* ContainerTaskTypeManager defines list, so self.list is ModelManager.list.
BaseTaskTypeManager_get(self, id, name) ==
    IF ~((id = None) # (name = None))
    THEN Done(Raise("ValueError",
                    "Either id or name must be set (but not both!)"), <<>>)
    ELSE IF id # None
    THEN Done(ModelManager_get({"id"}), <<>>)
    ELSE LET listed == ModelManager_list({"filters"})
         IN  IF listed.exc # "None" THEN Done(listed, <<>>)
             ELSE IF listed.value.list = <<>>
             THEN Done(Raise("IndexError", "list index out of range"), <<>>)
             ELSE Done(Return(Head(listed.value.list)), <<>>)

\* response_data_to_model_instance(self, response_data): the date-time is
\* coerced, then the conversion is delegated to the parent class.
BaseTaskTypeManager_response_data_to_model_instance(self, response_data) ==
    IF "datetime_created" \notin DOMAIN response_data
    THEN Raise("KeyError", "datetime_created")
    ELSE LET created == dateutil_parser_parse(response_data.datetime_created)
         IN  IF created.exc # "None" THEN created
             ELSE IF "response_data_to_model_instance" \notin ModelManager_methods
             THEN Raise("AttributeError",
                        "'super' object has no attribute 'response_data_to_model_instance'")
             ELSE Construct(self.model,
                    [response_data EXCEPT !.datetime_created = created.value])

BaseTaskTypeManager_create_params ==
    {"name", "command_to_run", "description", "environment_variables",
     "required_arguments", "required_arguments_default_values"}

\* A mutant: an omitted optional field is encoded as it is (None).
BaseTaskTypeManager_data_to_post_KeepsNone(kw) ==
    [name |-> kw.name,
     description |-> Arg(kw, "description", ""),
     command_to_run |-> kw.command_to_run,
     environment_variables |->
         json_dumps(Arg(kw, "environment_variables", None)),
     required_arguments |-> json_dumps(Arg(kw, "required_arguments", None)),
     required_arguments_default_values |->
         json_dumps(Arg(kw, "required_arguments_default_values", None))]

\* The payload BaseTaskTypeManager.create builds from its arguments.
BaseTaskTypeManager_data_to_post(kw) ==
    LET given_env == Arg(kw, "environment_variables", None)
        given_req == Arg(kw, "required_arguments", None)
        given_def == Arg(kw, "required_arguments_default_values", None)
        environment_variables ==
            IF given_env = None THEN PyList(<<>>) ELSE given_env
        required_arguments ==
            IF given_req = None THEN PyList(<<>>) ELSE given_req
        required_arguments_default_values ==
            IF given_def = None THEN PyDict(<<>>) ELSE given_def
    IN  [name |-> kw.name,
         description |-> Arg(kw, "description", ""),
         command_to_run |-> kw.command_to_run,
         environment_variables |-> json_dumps(environment_variables),
         required_arguments |-> json_dumps(required_arguments),
         required_arguments_default_values |->
             json_dumps(required_arguments_default_values)]

\* create(self, name, command_to_run, description="", ...), called with the
\* keyword arguments kw; response is the server's answer to the POST.
BaseTaskTypeManager_create(self, kw, response) ==
    IF ~Binds(DOMAIN kw, BaseTaskTypeManager_create_params,
              {"name", "command_to_run"})
    THEN Done(Raise("TypeError", "create() got an unexpected keyword argument"),
              <<>>)
    ELSE LET request_url == base_api_url \o self.list_url
             request == Post(request_url, BaseTaskTypeManager_data_to_post(kw))
             validated == Call_validate_request_success(
                 {"response_text", "request_url", "status_code",
                  "expected_status_code"},
                 request_url, response.status_code, HTTP_201_CREATED)
         IN  IF validated.exc # "None" THEN Done(validated, <<request>>)
             ELSE Done(BaseTaskTypeManager_response_data_to_model_instance(
                           self, response.json), <<request>>)

(***************************************************************************)
(* container_task_type.py: ContainerTaskTypeManager                        *)
(***************************************************************************)
HasKey(d, k) == \E i \in 1..Len(d.dict) : d.dict[i][1] = k

\* d[k] = v on a dict: a present key keeps its place, a new one is appended.
SetItem(d, k, v) ==
    IF HasKey(d, k)
    THEN PyDict([i \in 1..Len(d.dict) |->
                    IF d.dict[i][1] = k THEN <<k, v>> ELSE d.dict[i]])
    ELSE PyDict(Append(d.dict, <<k, v>>))

\* dict.update with the items of another dict, in their order.
RECURSIVE Update(_, _)
Update(d, items) ==
    IF items = <<>> THEN d
    ELSE Update(SetItem(d, items[1][1], items[1][2]), Tail(items))

ContainerTaskTypeManager_create_params ==
    {"name", "command_to_run", "container_image", "container_type",
     "description", "logs_path", "results_path", "environment_variables",
     "required_arguments", "required_arguments_default_values",
     "extra_data_to_post"}

\* The extra data create has after its update: the caller's dict, or a new
\* one, with the container fields set from the arguments.
ContainerTaskTypeManager_extra_data_to_post(kw) ==
    LET given == Arg(kw, "extra_data_to_post", None)
    IN  Update(IF given = None THEN PyDict(<<>>) ELSE given,
               << <<"container_image", kw.container_image>>,
                  <<"container_type", kw.container_type>>,
                  <<"logs_path", Arg(kw, "logs_path", "")>>,
                  <<"results_path", Arg(kw, "results_path", "")>> >>)

\* create(self, name, command_to_run, container_image, container_type, ...):
\* the container fields go into extra_data_to_post, and the parent's create
\* is called with extra_data_to_post as one more keyword argument.
ContainerTaskTypeManager_create(self, kw, response) ==
    IF ~Binds(DOMAIN kw, ContainerTaskTypeManager_create_params,
              {"name", "command_to_run", "container_image", "container_type"})
    THEN Done(Raise("TypeError", "create() got an unexpected keyword argument"),
              <<>>)
    ELSE LET extra_data_to_post ==
                 ContainerTaskTypeManager_extra_data_to_post(kw)
         IN  BaseTaskTypeManager_create(self,
                 [name |-> kw.name,
                  description |-> Arg(kw, "description", ""),
                  command_to_run |-> kw.command_to_run,
                  environment_variables |->
                      Arg(kw, "environment_variables", None),
                  required_arguments |-> Arg(kw, "required_arguments", None),
                  required_arguments_default_values |->
                      Arg(kw, "required_arguments_default_values", None),
                  extra_data_to_post |-> extra_data_to_post],
                 response)

\* The methods BaseTaskTypeManager defines, for super() lookups from its
\* subclass.
BaseTaskTypeManager_methods ==
    {"get", "create", "response_data_to_model_instance"}

\* super(cls, self).name: the bound method, or an AttributeError when no
\* class after cls defines it.
SuperLookup(methods, name) ==
    IF name \in methods THEN Return(name)
    ELSE Raise("AttributeError",
               "'super' object has no attribute '" \o name \o "'")

\* The extra data update has after its update: the caller's dict, or a new
\* one, with the container fields set from the task type's attributes.
ContainerTaskTypeManager_extra_data_to_put(task_type, extra_data_to_put) ==
    Update(IF extra_data_to_put = None THEN PyDict(<<>>)
           ELSE extra_data_to_put,
           << <<"container_image", task_type.attrs.container_image>>,
              <<"container_type", task_type.attrs.container_type>>,
              <<"logs_path", task_type.attrs.logs_path>>,
              <<"results_path", task_type.attrs.results_path>> >>)

\* update(self, task_type, extra_data_to_put=None): after the extra data is
\* made, the parent's update is looked up; the call ends as the lookup does.
ContainerTaskTypeManager_update(self, task_type, extra_data_to_put) ==
    Done(SuperLookup(BaseTaskTypeManager_methods \cup ModelManager_methods,
                     "update"), <<>>)

(***************************************************************************)
(* base_task_instance.py: BaseTaskInstanceManager                          *)
(***************************************************************************)
\* The names the module base_task_instance binds at its top level.
base_task_instance_globals ==
    {"absolute_import", "division", "print_function", "json", "dateutil",
     "HTTP_200_OK", "HTTP_201_CREATED", "Model", "ModelManager",
     "BaseTaskInstance", "BaseTaskInstanceManager"}

\* A mutant: a missing completion time is parsed like a present one.
BaseTaskInstanceManager_response_data_to_model_instance_AlwaysParses(self, response_data) ==
    LET created == dateutil_parser_parse(response_data.datetime_created)
        finished == dateutil_parser_parse(response_data.datetime_finished)
    IN  IF created.exc # "None" THEN created
        ELSE IF finished.exc # "None" THEN finished
        ELSE Construct(self.model,
                [response_data EXCEPT !.datetime_created = created.value,
                                      !.datetime_finished = finished.value])

\* response_data_to_model_instance(cls, response_data): datetime_created is
\* parsed, datetime_finished only when it is truthy, and the model class is
\* called with the response's items as keyword arguments.
BaseTaskInstanceManager_response_data_to_model_instance(self, response_data) ==
    IF "datetime_created" \notin DOMAIN response_data
    THEN Raise("KeyError", "datetime_created")
    ELSE LET created == dateutil_parser_parse(response_data.datetime_created)
         IN  IF created.exc # "None" THEN created
             ELSE IF "datetime_finished" \notin DOMAIN response_data
             THEN Raise("KeyError", "datetime_finished")
             ELSE LET finished ==
                          IF Truthy(response_data.datetime_finished)
                          THEN dateutil_parser_parse(
                                   response_data.datetime_finished)
                          ELSE Return(response_data.datetime_finished)
                  IN  IF finished.exc # "None" THEN finished
                      ELSE Construct(self.model,
                              [response_data EXCEPT
                                  !.datetime_created = created.value,
                                  !.datetime_finished = finished.value])

\* A mutant: a request answered with an unexpected status is sent again.
BaseTaskInstanceManager_get_Retries(self, uuid, response) ==
    LET request_url == base_api_url \o Format(self.detail_url, "uuid", uuid)
        request == Get(request_url)
    IN  IF response.status_code # HTTP_200_OK
        THEN Done(Raise("NameError", "name 'reponse' is not defined"),
                  <<request, request>>)
        ELSE Done(Raise("NameError", "name 'reponse' is not defined"),
                  <<request>>)

\* get(self, uuid): the request is issued, then the arguments of the
\* validation call are evaluated, the first of them reponse.text.
BaseTaskInstanceManager_get(self, uuid, response) ==
    LET request_url == base_api_url \o Format(self.detail_url, "uuid", uuid)
        request == Get(request_url)
    IN  IF ~NameBound("reponse", {"self", "uuid", "request_url", "response"},
                      base_task_instance_globals)
        THEN Done(Raise("NameError", "name 'reponse' is not defined"),
                  <<request>>)
        ELSE LET validated == Call_validate_request_success(
                     {"response_text", "request_url", "status_code",
                      "expected_status_code"},
                     request_url, response.status_code, HTTP_200_OK)
             IN  IF validated.exc # "None" THEN Done(validated, <<request>>)
                 ELSE Done(BaseTaskInstanceManager_response_data_to_model_instance(
                               self, response.json), <<request>>)

\* '{val}'.format(val=...) of a filter's value.
FormatValue(v) ==
    IF "int" \in DOMAIN v THEN str(v.int)
    ELSE IF "bigint" \in DOMAIN v THEN v.bigint
    ELSE v.str

\* The query string list builds: '?' before the first filter, '&' before
\* every other one, each as param=val, in the dict's order.
RECURSIVE QueryFilterSubUrl(_, _)
QueryFilterSubUrl(items, idx) ==
    IF items = <<>> THEN ""
    ELSE (IF idx = 0 THEN "?" ELSE "&")
         \o items[1][1] \o "=" \o FormatValue(items[1][2])
         \o QueryFilterSubUrl(Tail(items), idx + 1)

page_size_default == PyBigInt("9223372036854775807")

\* list(self, query_filters=None): the tests for the pagination keys read
\* the bare names page and page_size (not the strings 'page', 'page_size')
\* before any request is built.  Past them the code goes on as written:
\* defaults for the keys that are missing, the query string, the request,
\* the validation call and the conversion of the whole body.
BaseTaskInstanceManager_list(self, query_filters, response) ==
    LET filters == IF ~Truthy(query_filters) THEN PyDict(<<>>)
                   ELSE query_filters
    IN  IF ~NameBound("page", {"self", "query_filters"},
                      base_task_instance_globals)
        THEN Done(Raise("NameError", "name 'page' is not defined"), <<>>)
        ELSE IF ~NameBound("page_size", {"self", "query_filters"},
                           base_task_instance_globals)
        THEN Done(Raise("NameError", "name 'page_size' is not defined"), <<>>)
        ELSE LET paged == IF HasKey(filters, "page") THEN filters
                          ELSE SetItem(filters, "page", PyInt(1))
                 sized == IF HasKey(paged, "page_size") THEN paged
                          ELSE SetItem(paged, "page_size", page_size_default)
                 request_url == base_api_url \o self.list_url
                                \o QueryFilterSubUrl(sized.dict, 0)
                 request == Get(request_url)
             IN  IF ~NameBound("reponse",
                        {"self", "query_filters", "query_filter_sub_url",
                         "idx", "filter_param", "request_url", "response"},
                        base_task_instance_globals)
                 THEN Done(Raise("NameError", "name 'reponse' is not defined"),
                           <<request>>)
                 ELSE LET validated == Call_validate_request_success(
                              {"response_text", "request_url", "status_code",
                               "expected_status_code"},
                              request_url, response.status_code, HTTP_200_OK)
                      IN  IF validated.exc # "None"
                          THEN Done(validated, <<request>>)
                          ELSE Done(BaseTaskInstanceManager_response_data_to_model_instance(
                                        self, response.json), <<request>>)

BaseTaskInstanceManager_create_params ==
    {"task_type_id", "task_queue_id", "arguments", "name"}

\* The payload BaseTaskInstanceManager.create builds from its arguments.
BaseTaskInstanceManager_data_to_post(kw) ==
    LET given == Arg(kw, "arguments", None)
        arguments == IF ~Truthy(given) THEN PyDict(<<>>) ELSE given
    IN  [name |-> Arg(kw, "name", ""),
         arguments |-> json_dumps(arguments),
         task_type |-> kw.task_type_id,
         task_queue |-> kw.task_queue_id]

\* create(self, task_type_id, task_queue_id, arguments=None, name="").
BaseTaskInstanceManager_create(self, kw, response) ==
    IF ~Binds(DOMAIN kw, BaseTaskInstanceManager_create_params,
              {"task_type_id", "task_queue_id"})
    THEN Done(Raise("TypeError", "create() got an unexpected keyword argument"),
              <<>>)
    ELSE LET request_url == base_api_url \o self.list_url
             request == Post(request_url,
                             BaseTaskInstanceManager_data_to_post(kw))
             validated == Call_validate_request_success(
                 {"response_text", "request_url", "status_code",
                  "expected_status_code"},
                 request_url, response.status_code, HTTP_201_CREATED)
         IN  IF validated.exc # "None" THEN Done(validated, <<request>>)
             ELSE Done(BaseTaskInstanceManager_response_data_to_model_instance(
                           self, response.json), <<request>>)

(***************************************************************************)
(* The callers' inputs and the server's answers.                           *)
(***************************************************************************)
Statuses == {200, 201, 404}

Timestamps == {"2018-06-01T12:00:00Z", "2019-12-31T23:59:59Z"}

Urls == {base_api_url \o "containertasktypes/",
         base_api_url \o "containertasktypes/5/"}

Ids == {None, PyInt(5), PyInt(7)}

Names == {None, PyStr("x")}

Uuids == {"u1", "u2"}

\* An optional argument is omitted, passed as None, or given a value.
Choice == {"omitted", "none", "given"}

OptionalTaskTypeArgs ==
    {"environment_variables", "required_arguments",
     "required_arguments_default_values"}

GivenValue(k) ==
    CASE k = "environment_variables" -> PyList(<<"HOME">>)
      [] k = "required_arguments" -> PyList(<<"n", "m">>)
      [] k = "required_arguments_default_values" -> PyDict(<< <<"n", "1">> >>)
      [] k = "arguments" -> PyDict(<< <<"n", "1">>, <<"m", "2">> >>)
      [] k = "extra_data_to_post" ->
             PyDict(<< <<"container_image", "other">>, <<"priority", "high">> >>)

\* The keyword arguments of a call: the required ones, and each optional
\* one as f chooses.
Keywords(required, f) ==
    [k \in DOMAIN required \cup {o \in DOMAIN f : f[o] # "omitted"} |->
        IF k \in DOMAIN required THEN required[k]
        ELSE IF f[k] = "none" THEN None
        ELSE GivenValue(k)]

TaskTypeCreateArgs ==
    {Keywords([name |-> "t", command_to_run |-> "run"], f) :
        f \in [OptionalTaskTypeArgs -> Choice]}

ContainerCreateArgs ==
    {Keywords([name |-> "t", command_to_run |-> "run",
               container_image |-> "ubuntu:14.04",
               container_type |-> "docker",
               logs_path |-> "/logs/", results_path |-> "/results/"], f) :
        f \in [{"environment_variables", "extra_data_to_post"} -> Choice]}

TaskInstanceCreateArgs ==
    {Keywords([task_type_id |-> 5, task_queue_id |-> 1], f) :
        f \in [{"arguments"} -> Choice]}

QueryFilters ==
    {None, PyDict(<<>>),
     PyDict(<< <<"page", PyInt(2)>> >>),
     PyDict(<< <<"page_size", PyInt(10)>> >>),
     PyDict(<< <<"name", PyStr("x")>>, <<"page", PyInt(2)>> >>)}

\* What the server holds for an optional field after a create.
Stored(kw, k, empty) ==
    IF Arg(kw, k, None) = None THEN empty ELSE kw[k]

\* The server's JSON for the task type a create with the arguments kw made.
TaskTypeResponse(kw, created) ==
    [name |-> kw.name,
     description |-> Arg(kw, "description", ""),
     command_to_run |-> kw.command_to_run,
     environment_variables |->
         Stored(kw, "environment_variables", PyList(<<>>)),
     required_arguments |-> Stored(kw, "required_arguments", PyList(<<>>)),
     required_arguments_default_values |->
         Stored(kw, "required_arguments_default_values", PyDict(<<>>)),
     id |-> 5, user |-> "alice", datetime_created |-> PyStr(created)]

ContainerTaskTypeResponse(kw, created) ==
    [name |-> kw.name,
     description |-> Arg(kw, "description", ""),
     command_to_run |-> kw.command_to_run,
     environment_variables |->
         Stored(kw, "environment_variables", PyList(<<>>)),
     required_arguments |-> Stored(kw, "required_arguments", PyList(<<>>)),
     required_arguments_default_values |->
         Stored(kw, "required_arguments_default_values", PyDict(<<>>)),
     container_image |-> kw.container_image,
     container_type |-> kw.container_type,
     logs_path |-> Arg(kw, "logs_path", ""),
     results_path |-> Arg(kw, "results_path", ""),
     id |-> 5, user |-> "alice", datetime_created |-> PyStr(created)]

\* The server's JSON for a task instance: datetime_finished is null until
\* the instance has finished.
TaskInstanceResponse(kw, uuid, created, finished) ==
    [name |-> Arg(kw, "name", ""),
     arguments |-> Stored(kw, "arguments", PyDict(<<>>)),
     task_type |-> kw.task_type_id, task_queue |-> kw.task_queue_id,
     user |-> "alice", datetime_created |-> PyStr(created),
     uuid |-> uuid, state |-> "created", datetime_finished |-> finished]

Finished == {None} \cup {PyStr(t) : t \in Timestamps}

Response(status_code, json) == [status_code |-> status_code, json |-> json]

\* The arguments of the creates whose result a get or a list reads back.
StoredTaskTypeArgs == [name |-> "x", command_to_run |-> "run"]

StoredTaskInstanceArgs == [task_type_id |-> 5, task_queue_id |-> 1]

StoredTaskType == TaskTypeResponse(StoredTaskTypeArgs, "2018-06-01T12:00:00Z")

StoredTaskInstance ==
    TaskInstanceResponse(StoredTaskInstanceArgs, "u1", "2018-06-01T12:00:00Z",
                         None)

\* The server's JSON for a collection of task instances: a page of results.
StoredTaskInstances ==
    [count |-> 2,
     results |-> <<StoredTaskInstance,
                   TaskInstanceResponse(StoredTaskInstanceArgs, "u2",
                       "2019-12-31T23:59:59Z", None)>>]

(***************************************************************************)
(* The state machine: one action per call of a manager method, of a        *)
(* conversion or of a constructor.                                         *)
(***************************************************************************)
Init ==
    /\ session = <<>>
    /\ issued = <<>>
    /\ call = [op |-> "none"]
    /\ result = Return(None)

\* What the session keeps of a request: its method and URL.
RequestLine(request) == <<request.method, request.url>>

\* What the session keeps of the requests a call issued, in order.
RequestLines(reqs) == [i \in 1..Len(reqs) |-> RequestLine(reqs[i])]

\* The session has room for one more request; no call issues more than one.
HasRoom == Len(session) < MaxRequests

\* In each action, d is how the call ended: its outcome and the requests it
\* issued, which go out on the session in order.

ValidateRequestSuccess ==
    /\ HasRoom
    /\ \E url \in Urls, status \in Statuses,
          expected \in {HTTP_200_OK, HTTP_201_CREATED} :
           \E d \in {Done(Call_validate_request_success(
                              validate_request_success_params, url, status,
                              expected), <<>>)} :
               /\ session' = session \o RequestLines(d.reqs)
               /\ issued' = d.reqs
               /\ call' = [op |-> "validate_request_success",
                           request_url |-> url, status_code |-> status,
                           expected_status_code |-> expected]
               /\ result' = d.out

TaskTypeGet ==
    /\ HasRoom
    /\ \E self \in TaskTypeManagers, id \in Ids, name \in Names,
          status \in Statuses :
           \E d \in {BaseTaskTypeManager_get(self, id, name)} :
               /\ session' = session \o RequestLines(d.reqs)
               /\ issued' = d.reqs
               /\ call' = [op |-> "get", self |-> self.cls,
                           id |-> id, name |-> name,
                           response |-> Response(status, StoredTaskType)]
               /\ result' = d.out

TaskTypeCreate ==
    /\ HasRoom
    /\ \E kw \in TaskTypeCreateArgs, status \in Statuses :
           \E response \in
                  {Response(status, TaskTypeResponse(kw, "2018-06-01T12:00:00Z"))} :
           \E d \in {BaseTaskTypeManager_create(BaseTaskTypeManager, kw,
                                                response)} :
               /\ session' = session \o RequestLines(d.reqs)
               /\ issued' = d.reqs
               /\ call' = [op |-> "create", self |-> "BaseTaskTypeManager",
                           kw |-> kw, response |-> response]
               /\ result' = d.out

ContainerTaskTypeCreate ==
    /\ HasRoom
    /\ \E kw \in ContainerCreateArgs, status \in Statuses :
           \E response \in
                  {Response(status,
                       ContainerTaskTypeResponse(kw, "2018-06-01T12:00:00Z"))} :
           \E d \in {ContainerTaskTypeManager_create(ContainerTaskTypeManager, kw,
                                                     response)} :
               /\ session' = session \o RequestLines(d.reqs)
               /\ issued' = d.reqs
               /\ call' = [op |-> "create", self |-> "ContainerTaskTypeManager",
                           kw |-> kw, response |-> response,
                           extra_data |->
                               ContainerTaskTypeManager_extra_data_to_post(kw)]
               /\ result' = d.out

TaskInstanceGet ==
    /\ HasRoom
    /\ \E uuid \in Uuids, status \in Statuses, finished \in Finished :
           \E response \in
                  {Response(status,
                       TaskInstanceResponse(StoredTaskInstanceArgs, uuid,
                           "2018-06-01T12:00:00Z", finished))} :
           \E d \in {BaseTaskInstanceManager_get(BaseTaskInstanceManager, uuid,
                                                 response)} :
               /\ session' = session \o RequestLines(d.reqs)
               /\ issued' = d.reqs
               /\ call' = [op |-> "get", self |-> "BaseTaskInstanceManager",
                           uuid |-> uuid, response |-> response]
               /\ result' = d.out

TaskInstanceList ==
    /\ HasRoom
    /\ \E query_filters \in QueryFilters, status \in Statuses :
           \E response \in {Response(status, StoredTaskInstances)} :
           \E d \in {BaseTaskInstanceManager_list(BaseTaskInstanceManager,
                                                  query_filters, response)} :
               /\ session' = session \o RequestLines(d.reqs)
               /\ issued' = d.reqs
               /\ call' = [op |-> "list", self |-> "BaseTaskInstanceManager",
                           query_filters |-> query_filters,
                           response |-> response]
               /\ result' = d.out

TaskInstanceCreate ==
    /\ HasRoom
    /\ \E kw \in TaskInstanceCreateArgs, status \in Statuses :
           \E response \in
                  {Response(status,
                       TaskInstanceResponse(kw, "u1", "2018-06-01T12:00:00Z",
                                            None))} :
           \E d \in {BaseTaskInstanceManager_create(BaseTaskInstanceManager, kw,
                                                    response)} :
               /\ session' = session \o RequestLines(d.reqs)
               /\ issued' = d.reqs
               /\ call' = [op |-> "create", self |-> "BaseTaskInstanceManager",
                           kw |-> kw, response |-> response]
               /\ result' = d.out

\* The conversion called on a simulated response holding the fields a
\* create with the arguments kw sent.
TaskInstanceResponseToModel ==
    /\ HasRoom
    /\ \E kw \in TaskInstanceCreateArgs, uuid \in Uuids, created \in Timestamps,
          finished \in Finished :
           \E response_data \in
                  {TaskInstanceResponse(kw, uuid, created, finished)} :
           \E d \in {Done(BaseTaskInstanceManager_response_data_to_model_instance(
                              BaseTaskInstanceManager, response_data), <<>>)} :
               /\ session' = session \o RequestLines(d.reqs)
               /\ issued' = d.reqs
               /\ call' = [op |-> "response_data_to_model_instance",
                           self |-> "BaseTaskInstanceManager", kw |-> kw,
                           response_data |-> response_data]
               /\ result' = d.out

TaskTypeResponseToModel ==
    /\ HasRoom
    /\ \E kw \in TaskTypeCreateArgs, created \in Timestamps :
           \E response_data \in {TaskTypeResponse(kw, created)} :
           \E d \in {Done(BaseTaskTypeManager_response_data_to_model_instance(
                              BaseTaskTypeManager, response_data), <<>>)} :
               /\ session' = session \o RequestLines(d.reqs)
               /\ issued' = d.reqs
               /\ call' = [op |-> "response_data_to_model_instance",
                           self |-> "BaseTaskTypeManager", kw |-> kw,
                           response_data |-> response_data]
               /\ result' = d.out

\* ContainerTaskTypeManager inherits the conversion of BaseTaskTypeManager.
ContainerTaskTypeResponseToModel ==
    /\ HasRoom
    /\ \E kw \in ContainerCreateArgs, created \in Timestamps :
           \E response_data \in {ContainerTaskTypeResponse(kw, created)} :
           \E d \in {Done(BaseTaskTypeManager_response_data_to_model_instance(
                              ContainerTaskTypeManager, response_data), <<>>)} :
               /\ session' = session \o RequestLines(d.reqs)
               /\ issued' = d.reqs
               /\ call' = [op |-> "response_data_to_model_instance",
                           self |-> "ContainerTaskTypeManager", kw |-> kw,
                           response_data |-> response_data]
               /\ result' = d.out

StoredContainerTaskTypeArgs ==
    [name |-> "x", command_to_run |-> "run",
     container_image |-> "ubuntu:14.04", container_type |-> "docker"]

\* A container task type handed to update: an object with the attributes
\* of the class.
ContainerTaskTypes ==
    {Instance("ContainerTaskType",
         [container_image |-> image, container_type |-> "docker",
          logs_path |-> "/logs/", results_path |-> "/results/",
          id |-> 5])
        : image \in {"ubuntu:14.04", "alpine:3.8"}}

ExtraDataToPut ==
    {None, PyDict(<<>>), GivenValue("extra_data_to_post"),
     PyDict(<< <<"priority", "low">>, <<"logs_path", "/elsewhere/">> >>)}

\* In call, extra_data is the extra data dict as the method left it, which
\* it hands to the parent's method; a dict the caller passed is changed in
\* place.
ContainerTaskTypeUpdate ==
    /\ HasRoom
    /\ \E task_type \in ContainerTaskTypes,
          extra_data_to_put \in ExtraDataToPut, status \in Statuses :
           \E response \in
                  {Response(status,
                       ContainerTaskTypeResponse(StoredContainerTaskTypeArgs,
                           "2018-06-01T12:00:00Z"))} :
           \E d \in {ContainerTaskTypeManager_update(ContainerTaskTypeManager,
                                                     task_type,
                                                     extra_data_to_put)} :
               /\ session' = session \o RequestLines(d.reqs)
               /\ issued' = d.reqs
               /\ call' = [op |-> "update", self |-> "ContainerTaskTypeManager",
                           task_type |-> task_type,
                           extra_data_to_put |-> extra_data_to_put,
                           response |-> response,
                           extra_data |->
                               ContainerTaskTypeManager_extra_data_to_put(
                                   task_type, extra_data_to_put)]
               /\ result' = d.out

\* The fields of a task type, as a constructor takes them.
TaskTypeFields(created) ==
    [TaskTypeResponse(StoredTaskTypeArgs, created)
        EXCEPT !.datetime_created = dateutil_parser_parse(PyStr(created)).value]

\* The fields of a container task type, and the manager that made it.
ContainerTaskTypeFields(created) ==
    [name |-> StoredTaskTypeArgs.name,
     description |-> "",
     command_to_run |-> StoredTaskTypeArgs.command_to_run,
     environment_variables |-> PyList(<<>>),
     required_arguments |-> PyList(<<>>),
     required_arguments_default_values |-> PyDict(<<>>),
     container_image |-> "ubuntu:14.04", container_type |-> "docker",
     logs_path |-> "/logs/", results_path |-> "/results/",
     id |-> 5, user |-> "alice",
     datetime_created |-> dateutil_parser_parse(PyStr(created)).value,
     manager |-> "ContainerTaskTypeManager"]

\* A model constructor called with every parameter given.
NewModel ==
    /\ HasRoom
    /\ \E created \in Timestamps, model \in {"BaseTaskType", "ContainerTaskType"} :
           \E kw \in {IF model = "BaseTaskType" THEN TaskTypeFields(created)
                      ELSE ContainerTaskTypeFields(created)} :
           \E d \in {Done(Construct(model, kw), <<>>)} :
               /\ session' = session \o RequestLines(d.reqs)
               /\ issued' = d.reqs
               /\ call' = [op |-> "__init__", model |-> model, kw |-> kw]
               /\ result' = d.out

Next ==
    \/ ValidateRequestSuccess
    \/ TaskTypeGet
    \/ TaskTypeCreate
    \/ ContainerTaskTypeCreate
    \/ ContainerTaskTypeUpdate
    \/ TaskInstanceGet
    \/ TaskInstanceList
    \/ TaskInstanceCreate
    \/ TaskInstanceResponseToModel
    \/ TaskTypeResponseToModel
    \/ ContainerTaskTypeResponseToModel
    \/ NewModel

Spec == Init /\ [][Next]_vars

(***************************************************************************)
(* The claims.                                                             *)
(***************************************************************************)
TaskTypeManagerClasses == {"BaseTaskTypeManager", "ContainerTaskTypeManager"}

ManagerOf(cls) ==
    CASE cls = "BaseTaskTypeManager" -> BaseTaskTypeManager
      [] cls = "ContainerTaskTypeManager" -> ContainerTaskTypeManager
      [] cls = "BaseTaskInstanceManager" -> BaseTaskInstanceManager

\* The status a manager operation expects: 201 for create, 200 otherwise.
ExpectedStatus(op) == IF op = "create" THEN 201 ELSE 200

\* C1: validate_request_success raises BadHttpRequestError exactly when
\* the status code differs from the expected one; the message then holds
\* the request URL and the observed status code; with equal codes the call
\* returns normally.
C1_ValidateRaisesIffMismatch ==
    call.op = "validate_request_success" =>
        /\ (result.exc = "BadHttpRequestError")
               <=> (call.status_code # call.expected_status_code)
        /\ (call.status_code = call.expected_status_code)
               <=> (result.exc = "None")
        /\ result.exc = "BadHttpRequestError" =>
               /\ Contains(result.msg, call.request_url)
               /\ Contains(result.msg, str(call.status_code))

C1_Witness ==
    /\ call.op = "validate_request_success"
    /\ call.status_code = 404
    /\ call.expected_status_code = 200
    /\ result.exc = "BadHttpRequestError"

\* C2: a task-type get with both id and name None, or both given, raises
\* ValueError, and the call has issued no request on the session.
C2_UsageErrorBeforeAnyRequest ==
    (/\ call.op = "get"
     /\ call.self \in TaskTypeManagerClasses
     /\ (call.id = None) <=> (call.name = None)) =>
        /\ result.exc = "ValueError"
        /\ issued = <<>>

C2_Witness ==
    /\ call.op = "get"
    /\ call.self \in TaskTypeManagerClasses
    /\ call.id = PyInt(5)
    /\ call.name = PyStr("x")
    /\ result.exc = "ValueError"
    /\ issued = <<>>
    /\ session # <<>>

\* C3: a task-type get(id=5, name=None) answered with status 200 issues one
\* GET to the detail URL of the id and returns an instance of the manager's
\* model, without raising.
C3_GetByIdSucceeds ==
    (/\ call.op = "get"
     /\ call.self \in TaskTypeManagerClasses
     /\ call.id = PyInt(5)
     /\ call.name = None
     /\ call.response.status_code = 200) =>
        /\ result.exc = "None"
        /\ issued = <<Get(base_api_url
                          \o Format(ManagerOf(call.self).detail_url, "id", "5"))>>
        /\ result.value.cls = ManagerOf(call.self).model

\* C4: list() with no filters (None or an empty mapping) issues a GET whose
\* query string holds page=1 and page_size=9223372036854775807.
C4_ListInjectsPagination ==
    (call.op = "list" /\ ~Truthy(call.query_filters)) =>
        /\ Len(issued) = 1
        /\ issued[1].method = "GET"
        /\ Contains(issued[1].url, "page=1")
        /\ Contains(issued[1].url, "page_size=9223372036854775807")

\* C5: list with a caller's page issues a request carrying that page and the
\* default page_size; a caller's page_size is never replaced by the default.
C5_ListKeepsCallerPagination ==
    (call.op = "list" /\ Truthy(call.query_filters)) =>
        /\ HasKey(call.query_filters, "page") =>
               /\ Len(issued) = 1
               /\ Contains(issued[1].url, "page=2")
               /\ ~Contains(issued[1].url, "page=1")
               /\ Contains(issued[1].url, "page_size=9223372036854775807")
        /\ HasKey(call.query_filters, "page_size") =>
               /\ Len(issued) = 1
               /\ Contains(issued[1].url, "page_size=10")
               /\ ~Contains(issued[1].url, "page_size=9223372036854775807")

\* C6: a get, list or create whose response status differs from the expected
\* one raises BadHttpRequestError, its message holding the requested URL and
\* the observed status, and returns no model instance.
C6_StatusMismatchRaisesBadHttpRequest ==
    (/\ call.op \in {"get", "list", "create"}
     /\ issued # <<>>
     /\ call.response.status_code # ExpectedStatus(call.op)) =>
        /\ result.exc = "BadHttpRequestError"
        /\ Contains(result.msg, issued[1].url)
        /\ Contains(result.msg, str(call.response.status_code))
        /\ result.value = None

\* C7: ContainerTaskTypeManager.create issues a POST whose payload holds the
\* caller's container_image, container_type, logs_path and results_path
\* beside the base task-type fields.
C7_ContainerCreatePostsContainerFields ==
    (call.op = "create" /\ call.self = "ContainerTaskTypeManager") =>
        /\ Len(issued) = 1
        /\ issued[1].method = "POST"
        /\ BaseTaskTypeManager_create_params
               \cup ContainerTaskType_own_params \subseteq DOMAIN issued[1].data
        /\ \A k \in ContainerTaskType_own_params :
               issued[1].data[k] = call.kw[k]

C9_FinishedParsedOnlyWhenPresent ==
    (/\ call.op = "response_data_to_model_instance"
     /\ call.self = "BaseTaskInstanceManager") =>
        /\ result.exc = "None"
        /\ IsDatetime(result.value.attrs.datetime_created)
        /\ IsDatetime(result.value.attrs.datetime_finished) =>
               call.response_data.datetime_finished # None
        /\ call.response_data.datetime_finished = None =>
               result.value.attrs.datetime_finished = None

C9_Witness ==
    /\ call.op = "response_data_to_model_instance"
    /\ call.self = "BaseTaskInstanceManager"
    /\ call.response_data.datetime_finished = None
    /\ result.exc = "None"
    /\ result.value.attrs.datetime_finished = None
    /\ result.value.attrs.datetime_created.datetime.year = 2019

\* The attributes of an instance equal the inputs its response was made of.
AttributesEqualInputs(cls, attrs, kw) ==
    IF cls = "BaseTaskInstanceManager"
    THEN /\ attrs.task_type = kw.task_type_id
         /\ attrs.task_queue = kw.task_queue_id
         /\ attrs.name = Arg(kw, "name", "")
         /\ attrs.arguments = Stored(kw, "arguments", PyDict(<<>>))
    ELSE /\ attrs.name = kw.name
         /\ attrs.command_to_run = kw.command_to_run
         /\ attrs.environment_variables =
                Stored(kw, "environment_variables", PyList(<<>>))
         /\ attrs.required_arguments =
                Stored(kw, "required_arguments", PyList(<<>>))
         /\ attrs.required_arguments_default_values =
                Stored(kw, "required_arguments_default_values", PyDict(<<>>))
         /\ cls = "ContainerTaskTypeManager" =>
                \A k \in ContainerTaskType_own_params : attrs[k] = kw[k]

\* C10: for every resource kind, parsing a simulated response holding the
\* fields of a create yields an instance of the kind's model whose
\* attributes equal the inputs, date-times structured; the conversion and
\* the model constructors end without error.
C10_RoundTrip ==
    /\ call.op = "response_data_to_model_instance" =>
           /\ result.exc = "None"
           /\ result.value.cls = ManagerOf(call.self).model
           /\ IsDatetime(result.value.attrs.datetime_created)
           /\ AttributesEqualInputs(call.self, result.value.attrs, call.kw)
    /\ call.op = "__init__" => result.exc = "None"

\* The operations of a manager that may reach the session.
ManagerOperations == {"get", "list", "create"}

\* C11: every call of a manager operation issues at most one request on the
\* session, and the session grows by exactly the requests of the call; a
\* call whose one request was answered with an unexpected status issues
\* nothing more and ends with an error, returning no value.
C11_AtMostOneRequestPerCall ==
    [][/\ Len(issued') <= 1
       /\ session' = session \o RequestLines(issued')
       /\ (/\ call'.op \in ManagerOperations
           /\ issued' # <<>>
           /\ call'.response.status_code # ExpectedStatus(call'.op)) =>
              /\ Len(session') = Len(session) + 1
              /\ result'.exc # "None"
              /\ result'.value = None]_vars

C11_Witness ==
    /\ call.op = "get"
    /\ call.self = "BaseTaskInstanceManager"
    /\ call.response.status_code = 404
    /\ Len(issued) = 1
    /\ Len(session) = 2
    /\ result.exc # "None"

\* C12: a list answered with status 200 returns a list of task instances,
\* one for each resource of the response, in the response's order.
C12_ListReturnsInstances ==
    (call.op = "list" /\ call.response.status_code = 200) =>
        /\ result.exc = "None"
        /\ "list" \in DOMAIN result.value
        /\ Len(result.value.list) = Len(call.response.json.results)
        /\ \A i \in 1..Len(result.value.list) :
               /\ result.value.list[i].cls = "BaseTaskInstance"
               /\ result.value.list[i].attrs.uuid =
                      call.response.json.results[i].uuid

\* The filters of a list call as the claims have them sent: the caller's
\* items in their order, then page and page_size where the caller gave none.
SentFilters(query_filters) ==
    LET given == IF query_filters = None THEN <<>> ELSE query_filters.dict
        page == IF \E i \in 1..Len(given) : given[i][1] = "page" THEN <<>>
                ELSE << <<"page", PyInt(1)>> >>
        page_size ==
            IF \E i \in 1..Len(given) : given[i][1] = "page_size" THEN <<>>
            ELSE << <<"page_size", PyBigInt("9223372036854775807")>> >>
    IN  given \o page \o page_size

\* key=value for the items from the i-th on, '?' before the first item of
\* all and '&' before every other one.
RECURSIVE OrderedQueryString(_, _)
OrderedQueryString(items, i) ==
    IF i > Len(items) THEN ""
    ELSE (IF i = 1 THEN "?" ELSE "&")
         \o items[i][1] \o "=" \o FormatValue(items[i][2])
         \o OrderedQueryString(items, i + 1)

\* C13: a list call issues one request whose URL is the base URL, the list
\* URL and the filters as an ordered query string: the caller's filters in
\* the mapping's order, then the injected page and page_size.
C13_ListUrlIsOrderedQueryString ==
    call.op = "list" =>
        /\ Len(issued) = 1
        /\ issued[1].url =
               base_api_url \o ManagerOf(call.self).list_url
               \o OrderedQueryString(SentFilters(call.query_filters), 1)

\* C14: a task-type get(id=None, name=N) answered with status 200 issues
\* one GET to the list URL carrying the filter name=N and returns a
\* task-type instance, the first of the collection, without raising.
C14_GetByNameListsAndTakesFirst ==
    (/\ call.op = "get"
     /\ call.self \in TaskTypeManagerClasses
     /\ call.id = None
     /\ call.name # None
     /\ call.response.status_code = 200) =>
        /\ Len(issued) = 1
        /\ issued[1].method = "GET"
        /\ Contains(issued[1].url, ManagerOf(call.self).list_url)
        /\ Contains(issued[1].url, "name=" \o call.name.str)
        /\ result.exc = "None"
        /\ result.value.cls = ManagerOf(call.self).model

\* dict[k] of a dict that has the key.
Lookup(d, k) == d.dict[CHOOSE i \in 1..Len(d.dict) : d.dict[i][1] = k][2]

\* The container fields as the call has them: create's arguments, or the
\* attributes of update's task type.
ContainerValue(c, k) ==
    IF c.op = "create" THEN Arg(c.kw, k, "") ELSE c.task_type.attrs[k]

\* The extra data dict the caller passed, None when there was none.
CallersExtraData(c) ==
    IF c.op = "create" THEN Arg(c.kw, "extra_data_to_post", None)
    ELSE c.extra_data_to_put

\* The extra data of the call c holds the container fields with the call's
\* values, and every other item of the caller's dict unchanged.
ExtraDataOverridden(c) ==
    /\ \A k \in ContainerTaskType_own_params :
           /\ HasKey(c.extra_data, k)
           /\ Lookup(c.extra_data, k) = ContainerValue(c, k)
    /\ \A i \in 1..Len(CallersExtraData(c).dict) :
           LET item == CallersExtraData(c).dict[i]
           IN  item[1] \notin ContainerTaskType_own_params =>
                   /\ HasKey(c.extra_data, item[1])
                   /\ Lookup(c.extra_data, item[1]) = item[2]

\* C15: in a container create or update called with an extra data dict, the
\* extra data holds the container fields with the values of the arguments
\* (of the task type, for update) whatever the caller had put under those
\* keys, and every other item of the caller's unchanged; and the parent's
\* method takes that extra data: the call does not end in a TypeError or an
\* AttributeError, and issues its one request.
C15_ContainerFieldsOverrideExtraData ==
    (/\ call.op \in {"create", "update"}
     /\ call.self = "ContainerTaskTypeManager"
     /\ CallersExtraData(call) # None) =>
        /\ ExtraDataOverridden(call)
        /\ result.exc \notin {"TypeError", "AttributeError"}
        /\ Len(issued) = 1

====
